---- MODULE Spec2Model ----
(***************************************************************************)
(* Model of parse_calendar_pdf.py (Winterberg Abfall-Kalender PDF parser). *)
(*                                                                         *)
(* Three specifications share this module:                                 *)
(*   SpecCluster  find_grid_lines.cluster applied to bounded hit lists     *)
(*   SpecCell     map_to_cell applied to bounded boundary lists and points *)
(*   Spec         parse_pdf, one step per page of the document             *)
(*                                                                         *)
(* Strings are sequences of one-character strings, so that formatting,     *)
(* parsing, substring search and lexicographic comparison are computed.    *)
(***************************************************************************)
EXTENDS Integers, Sequences, FiniteSets, TLC

VARIABLES
    \* ---- cluster (SpecCluster)
    values,        \* the raw hit positions handed to cluster
    clustered,     \* cluster(values)
    reclustered,   \* cluster(cluster(values))
    cpc,           \* "input" | "once" | "twice"
    \* ---- map_to_cell (SpecCell)
    x, y,          \* the centroid
    h_lines,       \* horizontal boundaries
    v_lines,       \* vertical boundaries
    cell,          \* result of map_to_cell(x, y, h_lines, v_lines)
    mpc,           \* "input" | "mapped"
    \* ---- parse_pdf (Spec)
    year,          \* parameter year
    num_pages,     \* len(doc)
    page_num,      \* loop index of parse_pdf
    districts,     \* result["districts"]: name -> id of its events list
    lists,         \* heap of list objects: id -> sequence of dict ids
    dicts,         \* heap of event dict objects: id -> event
    pc,            \* "loop" | "returned"
    img,           \* image of the page processed last, by its name in Images
    last,          \* what the last iteration did
    log            \* history: per page, skipped or its resolved name and sorted events

cvars == <<values, clustered, reclustered, cpc>>
mvars == <<x, y, h_lines, v_lines, cell, mpc>>
pvars == <<year, num_pages, page_num, districts, lists, dicts, pc, img,
           last, log>>
vars == <<cvars, mvars, pvars>>

-----------------------------------------------------------------------------
(* Bounds of the model                                                     *)

MaxLen == 3          \* longest raw hit list handed to cluster
MaxPos == 23         \* largest raw hit position handed to cluster
MaxLines == 3        \* longest boundary list handed to map_to_cell
GridStep == 500      \* spacing of the candidate boundary positions (SpecCell)
MaxPages == 2        \* most pages of a document
CellPitch == 50      \* spacing of the grid lines drawn on a page image
DoubleEdges == 3     \* grid lines per axis that are detected twice

(* Program constants                                                       *)

ClusterThreshold == 10   \* cluster(values, threshold=10)
MinSegmentLength == 500  \* abs(x2 - x1) > 500
MaxSegmentDrift == 10    \* abs(y2 - y1) < 10
MinHLines == 30          \* len(h_lines) < 30
MinVLines == 10          \* len(v_lines) < 10
MaxMonth == 12           \* 1 <= month <= 12
MaxDay == 31             \* 1 <= day <= 31

-----------------------------------------------------------------------------
(* Python built-ins used by the program                                    *)

Abs(n) == IF n < 0 THEN -n ELSE n

\* int(f) of the float quotient s / n: truncation towards zero
TruncDiv(s, n) == IF s >= 0 THEN s \div n ELSE -((-s) \div n)

RECURSIVE SumSeq(_)
SumSeq(s) == IF s = <<>> THEN 0 ELSE Head(s) + SumSeq(Tail(s))

\* tuple and string comparison of Python, on sequences of integers: a <= b
\* (decided by the first position where they differ, else by the lengths)
LexLessEq(a, b) ==
    LET n == IF Len(a) < Len(b) THEN Len(a) ELSE Len(b)
        diff == {k \in 1..n : a[k] # b[k]}
    IN  IF diff = {} THEN Len(a) <= Len(b)
        ELSE LET k == CHOOSE k \in diff : \A j \in diff : k <= j
             IN  a[k] < b[k]

\* insert the pair e = <<key, item>> into the ascending sequence s after every
\* pair whose key is not greater (equal keys keep their order: the sort is stable)
RECURSIVE InsertByKey(_, _)
InsertByKey(e, s) ==
    IF s = <<>> THEN <<e>>
    ELSE IF LexLessEq(s[Len(s)][1], e[1]) THEN Append(s, e)
    ELSE Append(InsertByKey(e, SubSeq(s, 1, Len(s) - 1)), s[Len(s)])

RECURSIVE SortPairs(_)
SortPairs(s) ==
    IF s = <<>> THEN <<>>
    ELSE InsertByKey(s[Len(s)], SortPairs(SubSeq(s, 1, Len(s) - 1)))

\* the items of s in ascending order of keys[i], keys[i] a sequence of integers
SortByKey(s, keys) ==
    LET pairs == SortPairs([i \in 1..Len(s) |-> <<keys[i], s[i]>>])
    IN  [i \in 1..Len(s) |-> pairs[i][2]]

\* sorted(values) on integers
sorted(s) == SortByKey(s, [i \in 1..Len(s) |-> <<s[i]>>])

-----------------------------------------------------------------------------
(* find_grid_lines.cluster                                                 *)

\* clusters after the loop of lines 91-96: a sequence of sequences
RECURSIVE ClusterLoop(_, _, _)
ClusterLoop(clusters, rest, threshold) ==
    IF rest = <<>> THEN clusters
    ELSE LET v == Head(rest)
             n == Len(clusters)
             tail == clusters[n]
         IN  IF v - tail[Len(tail)] < threshold
             THEN ClusterLoop([clusters EXCEPT ![n] = Append(tail, v)],
                              Tail(rest), threshold)
             ELSE ClusterLoop(Append(clusters, <<v>>), Tail(rest), threshold)

\* int(np.mean(c))
IntMean(c) == TruncDiv(SumSeq(c), Len(c))

\* mutant: the loop compares against the first member of the open cluster
RECURSIVE ClusterLoop_first(_, _, _)
ClusterLoop_first(clusters, rest, threshold) ==
    IF rest = <<>> THEN clusters
    ELSE LET v == Head(rest)
             n == Len(clusters)
             tail == clusters[n]
         IN  IF v - tail[1] < threshold
             THEN ClusterLoop_first([clusters EXCEPT ![n] = Append(tail, v)],
                                    Tail(rest), threshold)
             ELSE ClusterLoop_first(Append(clusters, <<v>>), Tail(rest), threshold)

cluster_with_first(vals, threshold) ==
    IF vals = <<>> THEN <<>>
    ELSE LET sv == sorted(vals)
             clusters == ClusterLoop_first(<< <<sv[1]>> >>, Tail(sv), threshold)
         IN  sorted([i \in 1..Len(clusters) |-> IntMean(clusters[i])])

\* mutant: the input is not sorted before the loop (line 90 left out)
cluster_with_unsorted(vals, threshold) ==
    IF vals = <<>> THEN <<>>
    ELSE LET clusters == ClusterLoop(<< <<vals[1]>> >>, Tail(vals), threshold)
         IN  sorted([i \in 1..Len(clusters) |-> IntMean(clusters[i])])

cluster_with(vals, threshold) ==
    IF vals = <<>> THEN <<>>
    ELSE LET sv == sorted(vals)
             clusters == ClusterLoop(<< <<sv[1]>> >>, Tail(sv), threshold)
         IN  sorted([i \in 1..Len(clusters) |-> IntMean(clusters[i])])

cluster(vals) == cluster_with(vals, ClusterThreshold)

-----------------------------------------------------------------------------
(* map_to_cell                                                             *)

IndexError == [ok |-> FALSE, error |-> "IndexError"]

\* the for/else scan of lines 133-140 (and 143-150) over one boundary list:
\* the 0-based index of the first interval holding p, the clamp otherwise;
\* lines[-1] of an empty list raises IndexError
\* mutant: a point at or beyond the last boundary is not clamped
Scan_noclamp(p, lines) ==
    LET hits == {i \in 1..(Len(lines) - 1) : lines[i] <= p /\ p < lines[i + 1]}
    IN  IF hits # {}
        THEN [ok |-> TRUE, index |-> (CHOOSE i \in hits : \A j \in hits : i <= j) - 1]
        ELSE IF Len(lines) = 0 THEN IndexError
        ELSE [ok |-> TRUE, index |-> 0]

\* mutant: the clamp is off by one (len - 1 for len - 2)
Scan_offbyone(p, lines) ==
    LET hits == {i \in 1..(Len(lines) - 1) : lines[i] <= p /\ p < lines[i + 1]}
    IN  IF hits # {}
        THEN [ok |-> TRUE, index |-> (CHOOSE i \in hits : \A j \in hits : i <= j) - 1]
        ELSE IF Len(lines) = 0 THEN IndexError
        ELSE IF p >= lines[Len(lines)]
             THEN [ok |-> TRUE, index |-> Len(lines) - 1]
             ELSE [ok |-> TRUE, index |-> 0]

Scan(p, lines) ==
    LET hits == {i \in 1..(Len(lines) - 1) : lines[i] <= p /\ p < lines[i + 1]}
    IN  IF hits # {}
        THEN [ok |-> TRUE, index |-> (CHOOSE i \in hits : \A j \in hits : i <= j) - 1]
        ELSE IF Len(lines) = 0 THEN IndexError
        ELSE IF p >= lines[Len(lines)]
             THEN [ok |-> TRUE, index |-> Len(lines) - 2]
             ELSE [ok |-> TRUE, index |-> 0]

map_to_cell(px, py, hl, vl) ==
    LET col == Scan(px, vl)
    IN  IF ~col.ok THEN IndexError
        ELSE LET row == Scan(py, hl)
             IN  IF ~row.ok THEN IndexError
                 ELSE [ok |-> TRUE, month |-> col.index + 1, day |-> row.index]

-----------------------------------------------------------------------------
(* Strings: sequences of one-character strings                             *)

Digits == <<"0", "1", "2", "3", "4", "5", "6", "7", "8", "9">>

\* ord(c) for the characters of dates and of "month.day" strings
Ord(c) ==
    CASE c = "-" -> 45
      [] c = "." -> 46
      [] \E d \in 1..10 : Digits[d] = c ->
             47 + (CHOOSE d \in 1..10 : Digits[d] = c)

RECURSIVE NatToStr(_)
NatToStr(n) ==
    IF n < 10 THEN <<Digits[n + 1]>>
    ELSE Append(NatToStr(n \div 10), Digits[(n % 10) + 1])

\* f"{n}"
IntToStr(n) == IF n < 0 THEN <<"-">> \o NatToStr(-n) ELSE NatToStr(n)

\* f"{n:02d}": at least two characters, filled with zeros on the left
Format02d(n) ==
    LET t == IntToStr(n)
    IN  IF Len(t) >= 2 THEN t
        ELSE IF n < 0 THEN <<"-", "0">> \o NatToStr(-n) ELSE <<"0">> \o t

\* int(s) of a string of decimal digits
RECURSIVE StrToInt(_)
StrToInt(s) ==
    IF Len(s) = 1 THEN Ord(s[1]) - 48
    ELSE 10 * StrToInt(SubSeq(s, 1, Len(s) - 1)) + (Ord(s[Len(s)]) - 48)

\* s.split(sep) for a one-character separator
RECURSIVE Split(_, _)
Split(s, sep) ==
    IF \A i \in 1..Len(s) : s[i] # sep THEN <<s>>
    ELSE LET k == CHOOSE i \in 1..Len(s) :
                      s[i] = sep /\ \A j \in 1..(i - 1) : s[j] # sep
         IN  <<SubSeq(s, 1, k - 1)>> \o Split(SubSeq(s, k + 1, Len(s)), sep)

\* s.strip()
RECURSIVE strip(_)
strip(s) ==
    IF s = <<>> THEN s
    ELSE IF s[1] = " " THEN strip(Tail(s))
    ELSE IF s[Len(s)] = " " THEN strip(SubSeq(s, 1, Len(s) - 1))
    ELSE s

\* key in s
Contains(key, s) ==
    \E i \in 0..(Len(s) - Len(key)) : SubSeq(s, i + 1, i + Len(key)) = key

\* the code points of a string: Python compares strings by them
OrdSeq(s) == [i \in 1..Len(s) |-> Ord(s[i])]

-----------------------------------------------------------------------------
(* Tables of the program                                                   *)

\* the keys of ICON_COLORS in insertion order
ICON_COLORS == <<"restmuell", "biotonne", "papiertonne", "gelber_sack">>

WASTE_DESCRIPTIONS ==
    [restmuell |-> "Restmüll", biotonne |-> "Biotonne",
     papiertonne |-> "Papiertonne", gelber_sack |-> "Gelber Sack"]

Langewiese == <<"L", "a", "n", "g", "e", "w", "i", "e", "s", "e">>
Mollseifen == <<"M", "o", "l", "l", "s", "e", "i", "f", "e", "n">>
Neuastenberg == <<"N", "e", "u", "a", "s", "t", "e", "n", "b", "e", "r", "g">>
Hoheleye == <<"H", "o", "h", "e", "l", "e", "y", "e">>

\* DISTRICT_EXPANSION.items(): key and the names it expands to
DISTRICT_EXPANSION ==
    << <<Neuastenberg, <<Langewiese, Mollseifen, Neuastenberg, Hoheleye>> >> >>

-----------------------------------------------------------------------------
(* find_grid_lines, find_icons, parse_calendar_page                        *)
(*                                                                         *)
(* A page image is what OpenCV reports of it: the line segments of         *)
(* HoughLinesP, and for every waste type the contours of its colour mask   *)
(* (area, bounding box w x h, centroid cx, cy).                            *)

\* lines 80-85: the positions appended to h_lines (horizontal) or v_lines
Hits(segments, horizontal) ==
    LET Keep(s) ==
            IF horizontal
            THEN Abs(s[4] - s[2]) < MaxSegmentDrift /\ Abs(s[3] - s[1]) > MinSegmentLength
            ELSE Abs(s[3] - s[1]) < MaxSegmentDrift /\ Abs(s[4] - s[2]) > MinSegmentLength
        kept == SelectSeq(segments, Keep)
    IN  [i \in 1..Len(kept) |->
            IF horizontal THEN (kept[i][2] + kept[i][4]) \div 2
            ELSE (kept[i][1] + kept[i][3]) \div 2]

find_grid_lines(image) ==
    [h |-> cluster(Hits(image.segments, TRUE)),
     v |-> cluster(Hits(image.segments, FALSE))]

\* the centroids of the contours that pass the area and aspect filters
\* (min_area < area < max_area, max(w, h) / min(w, h) < 3); m00 is the area of
\* the contour, so it is positive for every contour that passes
RECURSIVE find_icons(_)
find_icons(contours) ==
    IF contours = <<>> THEN <<>>
    ELSE LET c == Head(contours)
             lo == IF c.w < c.h THEN c.w ELSE c.h
             hi == IF c.w < c.h THEN c.h ELSE c.w
             rest == find_icons(Tail(contours))
         IN  IF /\ 100 < c.area /\ c.area < 15000
                /\ lo > 0 /\ hi < 3 * lo
             THEN <<(<<c.cx, c.cy>>)>> \o rest
             ELSE rest

\* map_to_cell of every icon, line 200
CellsOf(icons, grid) ==
    [i \in 1..Len(icons) |-> map_to_cell(icons[i][1], icons[i][2], grid.h, grid.v)]

\* the (month, day) tuples appended to dates, lines 201-202
RECURSIVE ValidDates(_)
ValidDates(cells) ==
    IF cells = <<>> THEN <<>>
    ELSE LET c == Head(cells)
         IN  IF 1 <= c.month /\ c.month <= MaxMonth /\ 1 <= c.day /\ c.day <= MaxDay
             THEN <<(<<c.month, c.day>>)>> \o ValidDates(Tail(cells))
             ELSE ValidDates(Tail(cells))

RECURSIVE SetToSeq(_)
SetToSeq(S) ==
    IF S = {} THEN <<>>
    ELSE LET e == CHOOSE e \in S : TRUE IN <<e>> \o SetToSeq(S \ {e})

\* mutant: sorted(dates), the set() left out
sorted_noset(dates) == SortByKey(dates, dates)

\* sorted(set(dates)) for a list of (month, day) tuples
sorted_set(dates) ==
    LET u == SetToSeq({dates[i] : i \in 1..Len(dates)})
    IN  SortByKey(u, u)

\* f"{m}.{d}"
FormatCell(md) == IntToStr(md[1]) \o <<".">> \o IntToStr(md[2])

\* lines 196-205 for one waste type: its list of "month.day" strings
DatesOf(cells) ==
    LET dates == sorted_set(ValidDates(cells))
    IN  [i \in 1..Len(dates) |-> FormatCell(dates[i])]

\* mutant: the page is rejected only when both counts are too small
Undersized_and(grid) == Len(grid.h) < MinHLines /\ Len(grid.v) < MinVLines

\* line 190
Undersized(grid) == Len(grid.h) < MinHLines \/ Len(grid.v) < MinVLines

\* status "none" for None, "raised" when map_to_cell raises, else "ok" with
\* result the list of <<waste type, dates>> in the order of ICON_COLORS
parse_calendar_page(image) ==
    LET grid == find_grid_lines(image)
    IN  IF Undersized(grid) THEN [status |-> "none", result |-> <<>>]
        ELSE LET cells == [k \in 1..Len(ICON_COLORS) |->
                              CellsOf(find_icons(image.contours[ICON_COLORS[k]]), grid)]
             IN  IF \E k \in 1..Len(cells) : \E i \in 1..Len(cells[k]) : ~cells[k][i].ok
                 THEN [status |-> "raised", result |-> <<>>]
                 ELSE [status |-> "ok",
                       result |-> [k \in 1..Len(ICON_COLORS) |->
                                      <<ICON_COLORS[k], DatesOf(cells[k])>>]]

-----------------------------------------------------------------------------
(* extract_district_name and the events of a page                          *)

\* the outcome of re.search on the page text: no match, or group 1
NoMatch == [match |-> FALSE, group |-> <<>>]
Match(name) == [match |-> TRUE, group |-> name]

extract_district_name(found, n) ==
    IF found.match
    THEN strip(found.group)
    ELSE <<"S", "e", "i", "t", "e", "_">> \o IntToStr(n)

\* mutant: month and day are not padded
format_date_nopad(yr, month, day) ==
    IntToStr(yr) \o <<"-">> \o IntToStr(month) \o <<"-">> \o IntToStr(day)

\* f"{year}-{month:02d}-{day:02d}"
format_date(yr, month, day) ==
    IntToStr(yr) \o <<"-">> \o Format02d(month) \o <<"-">> \o Format02d(day)

description(waste_type) ==
    IF waste_type \in DOMAIN WASTE_DESCRIPTIONS
    THEN WASTE_DESCRIPTIONS[waste_type] ELSE waste_type

\* lines 239-245 for one waste type
EventsOfType(waste_type, dates, yr) ==
    [i \in 1..Len(dates) |->
        LET parts == Split(dates[i], ".")
            month == StrToInt(parts[1])
            day == StrToInt(parts[2])
        IN  [date |-> format_date(yr, month, day),
             type |-> waste_type,
             description |-> description(waste_type)]]

RECURSIVE BuildEvents(_, _)
BuildEvents(page_result, yr) ==
    IF page_result = <<>> THEN <<>>
    ELSE EventsOfType(Head(page_result)[1], Head(page_result)[2], yr)
             \o BuildEvents(Tail(page_result), yr)

\* events.sort(key=lambda e: e["date"])
sort_by_date(events) ==
    SortByKey(events, [i \in 1..Len(events) |-> OrdSeq(events[i].date)])

\* lines 237-247: the sorted events of a parsed page
page_events(page_result, yr) == sort_by_date(BuildEvents(page_result, yr))

\* lines 250-254: the names the district expands to, <<>> when none
RECURSIVE expansion_from(_, _)
expansion_from(items, district) ==
    IF items = <<>> THEN <<>>
    ELSE IF Contains(Head(items)[1], district) THEN Head(items)[2]
    ELSE expansion_from(Tail(items), district)

expansion(district) == expansion_from(DISTRICT_EXPANSION, district)

-----------------------------------------------------------------------------
(* The heap: result["districts"][name]["events"] is a list object holding   *)
(* dict objects. Objects are named by the least free positive integer.     *)

RECURSIVE NewIds(_, _)
NewIds(used, n) ==
    IF n = 0 THEN <<>>
    ELSE LET k == CHOOSE k \in 1..(Cardinality(used) + 1) :
                      k \notin used /\ \A j \in 1..(k - 1) : j \in used
         IN  <<k>> \o NewIds(used \cup {k}, n - 1)

\* f with ks[i] bound to vs[i]
Extend(f, ks, vs) ==
    [k \in DOMAIN f \cup {ks[i] : i \in 1..Len(ks)} |->
        IF \E i \in 1..Len(ks) : ks[i] = k
        THEN vs[CHOOSE i \in 1..Len(ks) : ks[i] = k]
        ELSE f[k]]

\* events = [] and the events.append({...}) of lines 237-245, then the sort:
\* a new list object holding new dict objects
new_events(doc, events) ==
    LET ids == NewIds(DOMAIN doc.dicts, Len(events))
        l == NewIds(DOMAIN doc.lists, 1)[1]
    IN  [doc |-> [districts |-> doc.districts,
                  lists |-> Extend(doc.lists, <<l>>, <<ids>>),
                  dicts |-> Extend(doc.dicts, ids, events)],
         list |-> l]

\* mutant: a name already in the document keeps its record
store_keepfirst(d, name, l) ==
    IF name \in DOMAIN d THEN d ELSE Extend(d, <<name>>, <<l>>)

\* result["districts"][name] = {"events": l}
store(d, name, l) == Extend(d, <<name>>, <<l>>)

\* mutant: [e for e in events], the dict objects are shared
copy_events_shared(heap, ids) == ids

\* [e.copy() for e in events]: the dict objects the new list holds
copy_events(heap, ids) == NewIds(DOMAIN heap, Len(ids))

\* lines 257-258: one new list of copies per expanded name
RECURSIVE write_expanded(_, _, _)
write_expanded(doc, targets, events) ==
    IF targets = <<>> THEN doc
    ELSE LET src == doc.lists[events]
             copies == copy_events(doc.dicts, src)
             l == NewIds(DOMAIN doc.lists, 1)[1]
         IN  write_expanded(
                 [districts |-> store(doc.districts, Head(targets), l),
                  lists |-> Extend(doc.lists, <<l>>, <<copies>>),
                  dicts |-> Extend(doc.dicts, copies,
                                   [i \in 1..Len(src) |-> doc.dicts[src[i]]])],
                 Tail(targets), events)

\* line 261
write_direct(doc, district, events) ==
    [doc EXCEPT !.districts = store(doc.districts, district, events)]

\* objects no record of the document refers to are freed
collect(doc) ==
    LET liveLists == {doc.districts[n] : n \in DOMAIN doc.districts}
        liveDicts == UNION {{doc.lists[l][i] : i \in 1..Len(doc.lists[l])} :
                               l \in liveLists}
    IN  [districts |-> doc.districts,
         lists |-> [l \in liveLists |-> doc.lists[l]],
         dicts |-> [e \in liveDicts |-> doc.dicts[e]]]

-----------------------------------------------------------------------------
(* Page images and page titles the documents are made of                   *)

\* position of the k-th grid line drawn on a page, k = 0, 1, ...
LinePos(k) == 20 + k * CellPitch

\* length of the grid lines
Extent == 40 * CellPitch

\* the segments of the k-th grid line: its first DoubleEdges lines are found
\* twice (both edges of the stroke), the second time slightly slanted
LineSegments(k, horizontal) ==
    LET p == LinePos(k)
        once == IF horizontal THEN <<0, p, Extent, p>> ELSE <<p, 0, p, Extent>>
        again == IF horizontal THEN <<0, p + 2, Extent, p + 3>>
                 ELSE <<p + 2, 0, p + 3, Extent>>
    IN  IF k < DoubleEdges THEN <<again, once>> ELSE <<once>>

RECURSIVE AllLines(_, _)
AllLines(n, horizontal) ==
    IF n = 0 THEN <<>>
    ELSE LineSegments(n - 1, horizontal) \o AllLines(n - 1, horizontal)

\* HoughLinesP on a page with nH horizontal and nV vertical grid lines, in no
\* particular order; a short and a diagonal segment come with them
GridSegments(nH, nV) ==
    AllLines(nH, TRUE) \o <<(<<0, 7, 400, 7>>), (<<0, 0, 800, 800>>)>>
        \o AllLines(nV, FALSE)

\* a pictogram in column c, row r of the grid, d pixels off the cell's centre
Pictogram(c, r, d) ==
    [area |-> 900, w |-> 30, h |-> 30,
     cx |-> LinePos(c) + (CellPitch \div 2) + d,
     cy |-> LinePos(r) + (CellPitch \div 2) + d]

\* a coloured background band, a speck of noise, a pictogram left of the grid
Band == [area |-> 12000, w |-> 600, h |-> 20, cx |-> 400, cy |-> 300]
Speck == [area |-> 40, w |-> 7, h |-> 6, cx |-> 300, cy |-> 300]
LeftOfGrid == [area |-> 900, w |-> 30, h |-> 30, cx |-> 5, cy |-> LinePos(3) + 9]

LayoutNone ==
    [restmuell |-> <<>>, biotonne |-> <<>>, papiertonne |-> <<>>,
     gelber_sack |-> <<>>]

\* two pictograms of one type in one cell, two types in one cell, months on
\* both sides of 10
LayoutA ==
    [restmuell |-> <<Pictogram(9, 1, 0)>>,
     biotonne |-> <<Pictogram(1, 12, 0), Pictogram(0, 5, 0), Pictogram(1, 12, 9)>>,
     papiertonne |-> <<>>,
     gelber_sack |-> <<Pictogram(1, 12, -4), Band>>]

\* pictograms in the header row, beyond the last boundaries and left of the grid
LayoutB ==
    [restmuell |-> <<Pictogram(2, 0, 0), Pictogram(MaxMonth + 1, 4, 0),
                     Pictogram(1, MaxDay + 2, 0)>>,
     biotonne |-> <<Speck>>,
     papiertonne |-> <<LeftOfGrid>>,
     gelber_sack |-> <<>>]

Layouts == [none |-> LayoutNone, a |-> LayoutA, b |-> LayoutB]

\* <<horizontal lines, vertical lines>>: a cover page, a legend table, the
\* smallest calendar and a full calendar
GridShapes ==
    {<<5, 12>>, <<MinHLines + 1, MinVLines - 1>>, <<MinHLines, MinVLines>>,
     <<MaxDay + 3, MaxMonth + 2>>}

\* the pages a document can hold, named by grid shape and pictogram layout
PageNames == GridShapes \X DOMAIN Layouts

\* render_pdf_page: the image of the page of that name
Images ==
    [n \in PageNames |->
        [segments |-> GridSegments(n[1][1], n[1][2]), contours |-> Layouts[n[2]]]]
    @@ <<>>

NoPage == <<(<<0, 0>>), "none">>

\* find_grid_lines of every page image, computed once
Grids == [n \in PageNames |-> find_grid_lines(Images[n])] @@ <<>>

\* parse_calendar_page of every page image, computed once
PageResults == [n \in PageNames |-> parse_calendar_page(Images[n])] @@ <<>>

Combined == Langewiese \o <<"/">> \o Neuastenberg

\* what re.search finds on a page: nothing, a name, a name followed by a
\* blank, the expansion key, a longer name holding the key
Titles ==
    {NoMatch, Match(Langewiese), Match(Langewiese \o <<" ">>),
     Match(Neuastenberg), Match(Combined)}

\* the years of the usage examples in the module's docstring
Years == {2025, 2026}

\* the sorted events of every calendar page in every year, computed once
PageEvents ==
    [n \in PageNames, yr \in Years |->
        IF PageResults[n].status = "ok"
        THEN page_events(PageResults[n].result, yr) ELSE <<>>] @@ <<>>

-----------------------------------------------------------------------------
(* Values the variables of a specification hold while another one runs     *)

IdleCluster ==
    /\ values = <<>> /\ clustered = <<>> /\ reclustered = <<>> /\ cpc = "idle"

IdleCell ==
    /\ x = 0 /\ y = 0 /\ h_lines = <<>> /\ v_lines = <<>>
    /\ cell = IndexError /\ mpc = "idle"

IdleParse ==
    /\ year = 0 /\ num_pages = 0 /\ page_num = 0
    /\ districts = <<>> /\ lists = <<>> /\ dicts = <<>>
    /\ pc = "idle" /\ img = NoPage /\ last = "none"
    /\ log = <<>>

-----------------------------------------------------------------------------
(* SpecCluster: cluster applied once and twice to every bounded hit list   *)

SeqsUpTo(S, n) == UNION {[1..k -> S] : k \in 0..n}

InitCluster ==
    /\ values \in SeqsUpTo(0..MaxPos, MaxLen)
    /\ clustered = <<>> /\ reclustered = <<>> /\ cpc = "input"
    /\ IdleCell /\ IdleParse

\* h_lines / v_lines handed to cluster (line 99)
ClusterOnce ==
    /\ cpc = "input"
    /\ clustered' = cluster(values)
    /\ cpc' = "once"
    /\ UNCHANGED <<values, reclustered, mvars, pvars>>

\* the result clustered again
ClusterTwice ==
    /\ cpc = "once"
    /\ reclustered' = cluster(clustered)
    /\ cpc' = "twice"
    /\ UNCHANGED <<values, clustered, mvars, pvars>>

NextCluster == ClusterOnce \/ ClusterTwice

SpecCluster == InitCluster /\ [][NextCluster]_vars

-----------------------------------------------------------------------------
(* SpecCell: map_to_cell applied to every bounded boundary set and point   *)

\* candidate boundary positions 0, GridStep, 2*GridStep, ...
BoundaryPositions == {k * GridStep : k \in 0..MaxLines}

\* the strictly increasing lists over S: what cluster returns
Increasing(S, n) ==
    {s \in SeqsUpTo(S, n) : \A i \in 1..(Len(s) - 1) : s[i] < s[i + 1]}

\* centroids: on a boundary, 10 past it, 1 before it
Coords ==
    {p + d : p \in BoundaryPositions, d \in {0, 10}}
        \cup {p - 1 : p \in BoundaryPositions \ {0}}

InitCell ==
    /\ h_lines \in Increasing(BoundaryPositions, MaxLines)
    /\ v_lines \in Increasing(BoundaryPositions, MaxLines)
    /\ x \in Coords /\ y \in Coords
    /\ cell = IndexError /\ mpc = "input"
    /\ IdleCluster /\ IdleParse

MapToCell ==
    /\ mpc = "input"
    /\ cell' = map_to_cell(x, y, h_lines, v_lines)
    /\ mpc' = "mapped"
    /\ UNCHANGED <<x, y, h_lines, v_lines, cvars, pvars>>

NextCell == MapToCell

SpecCell == InitCell /\ [][NextCell]_vars

-----------------------------------------------------------------------------
(* Claims about cluster (SpecCluster)                                      *)

StrictlyIncreasing(s) == \A i \in 1..(Len(s) - 1) : s[i] < s[i + 1]

\* C7: clustering is idempotent: for every list of non-negative positions and
\* the default threshold 10, cluster(cluster(values)) = cluster(values).
C7_ClusterIdempotent ==
    cpc = "twice" => reclustered = clustered

\* three hits, two of them merged into one cluster, clustered twice
C7_Witness ==
    /\ cpc = "twice"
    /\ Len(values) = 3
    /\ Len(clustered) = 2
    /\ \E i \in 1..2 : clustered[i] \notin {values[j] : j \in 1..3}

\* C10: every list the cluster step returns is strictly increasing (no
\* duplicates, nothing out of order), and an empty input gives an empty list.
C10_ClusterWellFormed ==
    cpc \in {"once", "twice"} =>
        /\ StrictlyIncreasing(clustered)
        /\ (values = <<>> => clustered = <<>>)
        /\ (values # <<>> => clustered # <<>>)

\* an unsorted input with a merged cluster next to another cluster
C10_Witness ==
    /\ cpc = "once"
    /\ Len(values) = 3
    /\ values[1] > values[3]
    /\ Len(clustered) = 2
    /\ clustered[2] - clustered[1] < 2 * ClusterThreshold

-----------------------------------------------------------------------------
(* Claims about map_to_cell (SpecCell)                                     *)

WellFormed == Len(h_lines) >= 2 /\ Len(v_lines) >= 2

\* C5: for strictly increasing boundary lists of at least 2 entries each,
\* map_to_cell returns a result for every (x, y); the month does not decrease
\* when x grows and the day does not decrease when y grows.
C5_TotalMonotonic ==
    (mpc = "mapped" /\ WellFormed) =>
        /\ cell.ok
        /\ \A x2 \in Coords :
               x <= x2 =>
                   LET c2 == map_to_cell(x2, y, h_lines, v_lines)
                   IN  c2.ok /\ cell.month <= c2.month
        /\ \A y2 \in Coords :
               y <= y2 =>
                   LET c2 == map_to_cell(x, y2, h_lines, v_lines)
                   IN  c2.ok /\ cell.day <= c2.day

\* a point inside the second of three columns, with points on either side
C5_Witness ==
    /\ mpc = "mapped" /\ WellFormed
    /\ Len(v_lines) = MaxLines
    /\ cell.ok /\ cell.month = 2
    /\ \E x2 \in Coords : x2 > x /\ x2 >= v_lines[Len(v_lines)]
    /\ \E x0 \in Coords : x0 < v_lines[1]

\* C6: month = 1 + i for the interval v[i] <= x < v[i+1] (i counted from 0),
\* len(v) - 1 when x >= v[-1], 1 when x < v[0]; the day follows the same rule
\* over h without the +1. x = 510 with v = [0, 500, 1000] gives month 2.
C6_IntervalAndClamp ==
    (mpc = "mapped" /\ WellFormed) =>
        /\ cell.ok
        /\ \A i \in 1..(Len(v_lines) - 1) :
               (v_lines[i] <= x /\ x < v_lines[i + 1]) => cell.month = 1 + (i - 1)
        /\ x >= v_lines[Len(v_lines)] => cell.month = Len(v_lines) - 1
        /\ x < v_lines[1] => cell.month = 1
        /\ \A i \in 1..(Len(h_lines) - 1) :
               (h_lines[i] <= y /\ y < h_lines[i + 1]) => cell.day = i - 1
        /\ y >= h_lines[Len(h_lines)] => cell.day = Len(h_lines) - 2
        /\ y < h_lines[1] => cell.day = 0
        /\ (v_lines = <<0, GridStep, 2 * GridStep>> /\ x = GridStep + 10)
               => cell.month = 2

\* the scenario of the specification: x = 510, v = [0, 500, 1000], and y
\* beyond the last horizontal boundary
C6_Witness ==
    /\ mpc = "mapped"
    /\ v_lines = <<0, GridStep, 2 * GridStep>> /\ x = GridStep + 10
    /\ Len(h_lines) = 2 /\ y >= h_lines[2]
    /\ cell.ok /\ cell.month = 2 /\ cell.day = 0

\* C8: whenever the vertical or the horizontal boundary list has fewer than 2
\* entries (empty or a single entry), map_to_cell raises an error for every
\* (x, y) instead of returning a (month, day) pair.
C8_FailFast ==
    (mpc = "mapped" /\ ~WellFormed) => ~cell.ok

-----------------------------------------------------------------------------
(* Spec: parse_pdf, one step per iteration of the loop over the pages      *)

\* A page on which map_to_cell raises ends parse_pdf with the exception: no
\* step is taken from there. (The order in which the dict keeps the names is
\* not modelled.)
Doc == [districts |-> districts, lists |-> lists, dicts |-> dicts]

Init ==
    /\ year \in Years
    /\ num_pages \in 0..MaxPages
    /\ page_num = 0
    /\ districts = <<>> /\ lists = <<>> /\ dicts = <<>>
    /\ pc = "loop"
    /\ img = NoPage /\ last = "none"
    /\ log = <<>>
    /\ IdleCluster /\ IdleCell

\* lines 226-234: the page is no calendar
SkipPage ==
    /\ pc = "loop" /\ page_num < num_pages
    /\ \E found \in Titles, image \in PageNames :
        LET page_result == PageResults[image]
        IN  /\ page_result.status = "none"
            /\ img' = image
            /\ log' = Append(log, [district |-> <<>>, skipped |-> TRUE,
                                   events |-> <<>>])
    /\ last' = "skipped"
    /\ page_num' = page_num + 1
    /\ UNCHANGED <<year, num_pages, districts, lists, dicts, pc, cvars, mvars>>

\* lines 226-247 and 260-262: the events go under the page's own name
WriteDirect ==
    /\ pc = "loop" /\ page_num < num_pages
    /\ \E found \in Titles, image \in PageNames :
        LET district == extract_district_name(found, page_num)
            page_result == PageResults[image]
            events == PageEvents[image, year]
            made == new_events(Doc, events)
            doc == collect(write_direct(made.doc, district, made.list))
        IN  /\ page_result.status = "ok"
            /\ expansion(district) = <<>>
            /\ img' = image
            /\ districts' = doc.districts
            /\ lists' = doc.lists
            /\ dicts' = doc.dicts
            /\ log' = Append(log, [district |-> district, skipped |-> FALSE,
                                   events |-> events])
    /\ last' = "direct"
    /\ page_num' = page_num + 1
    /\ UNCHANGED <<year, num_pages, pc, cvars, mvars>>

\* lines 226-259: the events are copied under every expanded name
WriteExpanded ==
    /\ pc = "loop" /\ page_num < num_pages
    /\ \E found \in Titles, image \in PageNames :
        LET district == extract_district_name(found, page_num)
            page_result == PageResults[image]
            events == PageEvents[image, year]
            made == new_events(Doc, events)
            doc == collect(write_expanded(made.doc, expansion(district), made.list))
        IN  /\ page_result.status = "ok"
            /\ expansion(district) # <<>>
            /\ img' = image
            /\ districts' = doc.districts
            /\ lists' = doc.lists
            /\ dicts' = doc.dicts
            /\ log' = Append(log, [district |-> district, skipped |-> FALSE,
                                   events |-> events])
    /\ last' = "expanded"
    /\ page_num' = page_num + 1
    /\ UNCHANGED <<year, num_pages, pc, cvars, mvars>>

\* line 264
Return ==
    /\ pc = "loop" /\ page_num = num_pages
    /\ pc' = "returned"
    /\ UNCHANGED <<year, num_pages, page_num, districts, lists, dicts, img,
                   last, log, cvars, mvars>>

Next == SkipPage \/ WriteDirect \/ WriteExpanded \/ Return

Spec == Init /\ [][Next]_vars

-----------------------------------------------------------------------------
(* Claims about parse_pdf (Spec)                                           *)

\* the events stored under a name, and the dict objects holding them
EventIds(name) == {lists[districts[name]][i] : i \in 1..Len(lists[districts[name]])}
EventsIn(heap, name) ==
    [i \in 1..Len(lists[districts[name]]) |-> heap[lists[districts[name]][i]]]
Events(name) == EventsIn(dicts, name)

Range(s) == {s[i] : i \in 1..Len(s)}

\* the entry of the page processed last
LastPage == log[page_num]

\* the expansion tables whose key is a substring of the name
KeysIn(name) ==
    {k \in 1..Len(DISTRICT_EXPANSION) : Contains(DISTRICT_EXPANSION[k][1], name)}

\* the targets of the first key the name contains
TargetsOf(name) ==
    DISTRICT_EXPANSION[CHOOSE k \in KeysIn(name) : \A j \in KeysIn(name) : k <= j][2]

\* C1: after a non-skipped page whose resolved name contains an expansion key,
\* the document holds one record per target of the key, each value-equal to
\* the page's sorted events, the lists independently owned (changing an event
\* of one target changes no other target's list), and nothing is stored under
\* the resolved name unless it is a target.
C1_Expansion ==
    (page_num > 0 /\ last # "skipped" /\ KeysIn(LastPage.district) # {}) =>
        LET targets == Range(TargetsOf(LastPage.district))
        IN  /\ targets \subseteq DOMAIN districts
            /\ \A t \in targets : Events(t) = LastPage.events
            /\ \A t1, t2 \in targets :
                   t1 # t2 =>
                       /\ districts[t1] # districts[t2]
                       /\ \A e \in EventIds(t1) :
                              EventsIn([dicts EXCEPT ![e].type = "changed"], t2)
                                  = Events(t2)
            /\ (LastPage.district \notin targets
                    => LastPage.district \notin DOMAIN districts)

\* the second page, named "Langewiese/Neuastenberg", expanded four events
C1_Witness ==
    /\ page_num = 2 /\ last = "expanded"
    /\ LastPage.district = Combined
    /\ Len(LastPage.events) = 4
    /\ Cardinality(DOMAIN districts) = 4
    /\ ~log[1].skipped

\* C2: a page whose grid has fewer than 30 horizontal or fewer than 10 vertical
\* boundaries makes parse_calendar_page return None; parse_pdf leaves the
\* locality mapping exactly as it was and goes on with the next page.
C2_SoftSkip ==
    [][(/\ page_num' = page_num + 1
        /\ \/ Len(Grids[img'].h) < 30
           \/ Len(Grids[img'].v) < 10)
       => /\ PageResults[img'].status = "none"
          /\ last' = "skipped"
          /\ districts' = districts /\ lists' = lists /\ dicts' = dicts
          /\ pc' = "loop"]_vars

\* a page with 5 horizontal boundaries skipped after a page that was written
C2_Witness ==
    /\ page_num = 2 /\ last = "skipped"
    /\ Len(Grids[img].h) = 5
    /\ DOMAIN districts # {}
    /\ \E n \in DOMAIN districts : Events(n) # <<>>

\* the names a logged page wrote to
WrittenBy(entry) ==
    IF entry.skipped THEN {}
    ELSE IF KeysIn(entry.district) # {} THEN Range(TargetsOf(entry.district))
    ELSE {entry.district}

Writers(name) == {i \in 1..Len(log) : name \in WrittenBy(log[i])}

Highest(S) == CHOOSE i \in S : \A j \in S : j <= i

\* C3: pages are processed in ascending page index, and the record under any
\* name is exactly the event list of the highest-index non-skipped page that
\* wrote to the name (directly or as an expansion target), never a merge.
C3_LastWriteWins ==
    /\ Len(log) = page_num
    /\ \A name \in DOMAIN districts :
           /\ Writers(name) # {}
           /\ Events(name) = log[Highest(Writers(name))].events
    /\ \A i \in 1..Len(log) : WrittenBy(log[i]) \subseteq DOMAIN districts

\* all pages processed; a name written by two pages with different events
C3_Witness ==
    /\ pc = "returned" /\ num_pages = MaxPages
    /\ \E name \in DOMAIN districts :
           \E i, j \in Writers(name) :
               /\ i < j
               /\ log[i].events # <<>>
               /\ log[j].events # <<>>
               /\ log[i].events # log[j].events
               /\ KeysIn(log[i].district) = {} /\ KeysIn(log[j].district) # {}

\* the cells of the accepted pictograms of every page image, per waste type
PageCells ==
    [n \in PageNames |->
        [k \in 1..Len(ICON_COLORS) |->
            CellsOf(find_icons(Images[n].contours[ICON_COLORS[k]]), Grids[n])]]
    @@ <<>>

ValidCell(c) == 1 <= c.month /\ c.month <= 12 /\ 1 <= c.day /\ c.day <= 31

\* C4: a processed page yields exactly one event for every (month, day) cell
\* and waste type that one or more pictograms of the type map to; no record
\* of the document holds two events of the same date and type.
C4_Deduplication ==
    /\ (page_num > 0 /\ last # "skipped") =>
           \A k \in 1..Len(ICON_COLORS) :
               \A i \in 1..Len(PageCells[img][k]) :
                   LET c == PageCells[img][k][i]
                       ev == LastPage.events
                   IN  ValidCell(c) =>
                           Cardinality(
                               {j \in 1..Len(ev) :
                                   /\ ev[j].type = ICON_COLORS[k]
                                   /\ ev[j].date = format_date(year, c.month, c.day)})
                               = 1
    /\ \A name \in DOMAIN districts :
           \A i, j \in 1..Len(Events(name)) :
               i # j => \/ Events(name)[i].date # Events(name)[j].date
                        \/ Events(name)[i].type # Events(name)[j].type

\* a written page with two pictograms of one waste type in one valid cell
C4_Witness ==
    /\ page_num > 0 /\ last = "direct"
    /\ \E k \in 1..Len(ICON_COLORS) :
           \E i, j \in 1..Len(PageCells[img][k]) :
               /\ i < j
               /\ PageCells[img][k][i] = PageCells[img][k][j]
               /\ ValidCell(PageCells[img][k][i])
               /\ Images[img].contours[ICON_COLORS[k]][i]
                      # Images[img].contours[ICON_COLORS[k]][j]

IsDigit(c) == \E d \in 1..10 : Digits[d] = c

\* YYYY-MM-DD
IsIsoDate(s) ==
    /\ Len(s) = 10
    /\ \A i \in {1, 2, 3, 4, 6, 7, 9, 10} : IsDigit(s[i])
    /\ s[5] = "-" /\ s[8] = "-"

MonthDay(s) == <<StrToInt(SubSeq(s, 6, 7)), StrToInt(SubSeq(s, 9, 10))>>

\* C9: in every record (expanded copies included) every date has the form
\* YYYY-MM-DD with the year of the document and a two-digit month and day,
\* the events ascend by date string, and the order of the date strings is
\* the order of (month, day).
C9_EventOrdering ==
    LET records == {Events(name) : name \in DOMAIN districts}
        dates == UNION {{ev[i].date : i \in 1..Len(ev)} : ev \in records}
    IN  /\ \A d \in dates :
               /\ IsIsoDate(d)
               /\ StrToInt(SubSeq(d, 1, 4)) = year
               /\ MonthDay(d)[1] \in 1..12
               /\ MonthDay(d)[2] \in 1..31
        /\ \A ev \in records :
               \A i \in 1..(Len(ev) - 1) :
                   LexLessEq(OrdSeq(ev[i].date), OrdSeq(ev[i + 1].date))
        /\ \A d1, d2 \in dates :
               LexLessEq(OrdSeq(d1), OrdSeq(d2))
                   <=> LexLessEq(MonthDay(d1), MonthDay(d2))

\* an expanded copy holding events of a one-digit and of a two-digit month
\* that were built in the opposite order
C9_Witness ==
    /\ last = "expanded"
    /\ \E i, j \in 1..Len(Events(Hoheleye)) :
           /\ i < j
           /\ MonthDay(Events(Hoheleye)[i].date)[1] < 10
           /\ MonthDay(Events(Hoheleye)[j].date)[1] >= 10
           /\ Events(Hoheleye)[i].type = "biotonne"
           /\ Events(Hoheleye)[j].type = "restmuell"

====
